---- MODULE Spec2Model ----
(***************************************************************************)
(* Model of the bridge relayer of src/script.py: the state file, the       *)
(* source chain, and one relayer process (BridgeRelayerService) that is    *)
(* constructed, runs its polling loop, and may be interrupted, killed and  *)
(* restarted.                                                              *)
(***************************************************************************)
EXTENDS Integers, Sequences, FiniteSets, TLC

\* ---- bounds of the model ------------------------------------------------
MaxHead == 3
MaxEventsPerBlock == 2
MaxRestarts == 1
MaxInitialBlock == 1
\* CONFIG['relayer']['max_blocks_per_scan'], scaled down
MaxBlocksPerScan == 2

VARIABLES
  file,                \* contents of CONFIG['state_file']
  head,                \* source chain head (eth.block_number)
  logs,                \* logs[b]: number of TokensLocked events in block b
  initial_scan_block,  \* CONFIG['relayer']['initial_scan_block']
  pc,                  \* position of the relayer process
  last_scanned_block,  \* self.last_scanned_block
  latest_block, from_block, to_block, \* locals of run()
  events,              \* result of scan_for_events in this cycle
  idx,                 \* position of the for loop over events
  attempts,            \* events passed to process_event in this cycle, in order
  firstFailure,        \* position in attempts of the first call that returned
                       \* False, 0 when none did
  mint_tx,             \* call built by the last process_event, NoCall when it
                       \* failed before build_transaction
  saveCaller,          \* who called save_state: "cycle" (350) or "shutdown" (355)
  scanOutcome,         \* what the node did with the last log query
  ranges,              \* ranges passed to scan_for_events by this process
  initialBlock,        \* cursor with which this process entered the loop
  firstInitial,        \* cursor with which the first process entered the loop
  handed,              \* events ever passed to process_event
  requested,           \* blocks ever covered by a scan_for_events call
  killedRange,         \* range whose batch was done, cursor not yet persisted,
                       \* when the previous process was killed
  restarts             \* processes started after the first one

vars == <<file, head, logs, initial_scan_block, pc, last_scanned_block,
          latest_block, from_block, to_block, events, idx, attempts,
          firstFailure, mint_tx, saveCaller, scanOutcome, ranges, initialBlock,
          firstInitial, handed, requested, killedRange, restarts>>

chain == <<head, logs>>
locals == <<latest_block, from_block, to_block, events, idx, attempts,
           firstFailure, mint_tx>>
ghosts == <<handed, requested>>

\* ---- values ---------------------------------------------------------------
None == <<>>
Some(n) == <<n>>
Val(c) == c[1]

Latest == [latest |-> TRUE, block |-> 0]
Explicit(n) == [latest |-> FALSE, block |-> n]
InitialScanBlocks == {Latest} \cup {Explicit(n) : n \in 0..MaxInitialBlock}

Missing == [kind |-> "missing", val |-> 0]
Truncated == [kind |-> "truncated", val |-> 0]
Json(n) == [kind |-> "json", val |-> n]

Min(a, b) == IF a <= b THEN a ELSE b

\* Python truthiness of self.last_scanned_block in `if not ...`
Falsy(c) == c = None \/ c = Some(0)

\* ---- pure parts -----------------------------------------------------------
BlockEvents(b) == [i \in 1..logs[b] |-> <<b, i>>]

RECURSIVE EventsInRange(_, _)
EventsInRange(from, to) ==
  IF from > to THEN <<>> ELSE BlockEvents(from) \o EventsInRange(from + 1, to)

\* a block holds no TokensLocked event or a full set of them
LogCounts == {0, MaxEventsPerBlock}

ScanOutcomes == {"ok", "BlockNotFound", "NodeError"}

scan_for_events(from, to, outcome) ==
  IF outcome = "ok" THEN EventsInRange(from, to)
  ELSE IF outcome = "BlockNotFound" THEN <<>>
  ELSE <<>>

\* variant: the range starts one block late
FromBlockSkipsOne(cursor) == Val(cursor) + 2

\* line 326
FromBlock(cursor) == Val(cursor) + 1

\* variant: the chunk end is one block too far
ToBlockOffByOne(latest, from) == Min(latest, from + MaxBlocksPerScan)

\* line 329
ToBlock(latest, from) == Min(latest, from + MaxBlocksPerScan - 1)

\* the decoded log of event e = <<blockNumber, logIndex>>
event_data(e) ==
  [transactionHash |-> <<"tx", e[1], e[2]>>,
   blockNumber |-> e[1],
   logIndex |-> e[2],
   args |-> [token |-> <<"token", e[2]>>,
             sender |-> <<"sender", e[1], e[2]>>,
             recipient |-> <<"recipient", e[1], e[2]>>,
             amount |-> 10 * e[1] + e[2]]]

NoCall == [function |-> "none"]

\* variant: the tokens are minted to the sender of the lock
MintToSender(data) ==
  [function |-> "mintTokens",
   token |-> data.args.token,
   recipient |-> data.args.sender,
   amount |-> data.args.amount,
   sourceTransactionHash |-> data.transactionHash]

\* lines 200-227: the mintTokens call built from one event
MintTokens(data) ==
  [function |-> "mintTokens",
   token |-> data.args.token,
   recipient |-> data.args.recipient,
   amount |-> data.args.amount,
   sourceTransactionHash |-> data.transactionHash]

\* process_event ends at line 243, or in the except clause after a failed
\* nonce or gas price lookup (lines 214, 219) or a failed build or sign
\* (lines 227, 230)
ProcessOutcomes == {"sent", "NodeError", "SubmitError"}

\* variant: the batch is walked from its last event to its first
EventAtReversed(evs, i) == evs[Len(evs) + 1 - i]

\* line 345: the event the for loop hands over at its i-th pass
EventAt(evs, i) == evs[i]

\* variant: a failed process_event ends the batch
NextIdxStopOnFailure(i, ok, n) == IF ok THEN i + 1 ELSE n + 1

\* the for loop of run(): process_event swallows its exceptions, the loop goes on
NextIdx(i, ok, n) == i + 1

\* variant: the cursor moves only when every process_event returned True
CursorIfAllSubmitted(cursor, to, failure) ==
  IF failure = 0 THEN Some(to) ELSE cursor

\* variant: the cursor stops one block short of the scanned range
CursorOneShort(cursor, to, failure) == Some(to - 1)

\* line 349: the cursor after the batch
CursorAfterBatch(cursor, to, failure) == Some(to)

\* load_state: the dict read from the file, "raise" when json.load fails
load_state(f) ==
  IF f.kind = "missing" THEN [raised |-> FALSE, cursor |-> None]
  ELSE IF f.kind = "json" THEN [raised |-> FALSE, cursor |-> Some(f.val)]
  ELSE [raised |-> TRUE, cursor |-> None]

\* ---- initial state --------------------------------------------------------
Init ==
  /\ file = Missing
  /\ head \in 0..1
  /\ logs \in [1..head -> LogCounts]
  /\ initial_scan_block \in InitialScanBlocks
  /\ pc = "boot"
  /\ last_scanned_block = None
  /\ latest_block = 0 /\ from_block = 0 /\ to_block = 0
  /\ events = <<>> /\ idx = 1 /\ attempts = <<>> /\ firstFailure = 0
  /\ mint_tx = NoCall
  /\ saveCaller = "cycle"
  /\ scanOutcome = "none"
  /\ ranges = <<>>
  /\ initialBlock = None
  /\ firstInitial = None
  /\ handed = {}
  /\ requested = {}
  /\ killedRange = <<>>
  /\ restarts = 0

\* ---- the chain ------------------------------------------------------------
NewBlock ==
  /\ head < MaxHead
  /\ \E n \in LogCounts :
       /\ head' = head + 1
       /\ logs' = [b \in 1..(head + 1) |-> IF b <= head THEN logs[b] ELSE n]
  /\ UNCHANGED <<file, initial_scan_block, pc, last_scanned_block, locals,
                 saveCaller, scanOutcome, ranges, initialBlock, firstInitial,
                 ghosts, killedRange, restarts>>

\* ---- BridgeRelayerService.__init__ -----------------------------------------
ConstructOk ==
  /\ pc = "boot"
  /\ ~load_state(file).raised
  /\ last_scanned_block' = load_state(file).cursor
  /\ pc' = "run"
  /\ UNCHANGED <<file, chain, initial_scan_block, locals, saveCaller,
                 scanOutcome, ranges, initialBlock, firstInitial, ghosts, killedRange, restarts>>

\* json.load raises on the state file (line 300), or a connect() raises
\* ConnectionError (lines 268, 278): __main__ logs and exits with status 1
ConstructFails ==
  /\ pc = "boot"
  /\ pc' = IF load_state(file).raised THEN "load_failed" ELSE "connect_failed"
  /\ UNCHANGED <<file, chain, initial_scan_block, last_scanned_block, locals,
                 saveCaller, scanOutcome, ranges, initialBlock, firstInitial,
                 ghosts, killedRange, restarts>>

\* ---- run(): lines 314-320 ---------------------------------------------------
ResolveInitial ==
  /\ pc = "run"
  /\ IF Falsy(last_scanned_block)
       THEN IF initial_scan_block.latest
              THEN last_scanned_block' = Some(head)
              ELSE last_scanned_block' = Some(initial_scan_block.block)
       ELSE last_scanned_block' = last_scanned_block
  /\ pc' = "loop"
  /\ initialBlock' = last_scanned_block'
  /\ firstInitial' = IF firstInitial = None THEN last_scanned_block' ELSE firstInitial
  /\ UNCHANGED <<file, chain, initial_scan_block, locals, saveCaller,
                 scanOutcome, ranges, ghosts, killedRange, restarts>>

\* get_latest_block_number raises outside the try block: exit status 1
ResolveInitialFails ==
  /\ pc = "run"
  /\ Falsy(last_scanned_block) /\ initial_scan_block.latest
  /\ pc' = "connect_failed"
  /\ UNCHANGED <<file, chain, initial_scan_block, last_scanned_block, locals,
                 saveCaller, scanOutcome, ranges, initialBlock, firstInitial,
                 ghosts, killedRange, restarts>>

\* ---- run(): one pass of the while loop ---------------------------------------
\* lines 325-334: nothing new, sleep
CycleNoNewBlocks ==
  /\ pc = "loop"
  /\ LET from == FromBlock(last_scanned_block)
         to == ToBlock(head, from)
     IN /\ from > to
        /\ latest_block' = head /\ from_block' = from /\ to_block' = to
  /\ pc' = "sleep"
  /\ UNCHANGED <<file, chain, initial_scan_block, last_scanned_block, events,
                 idx, attempts, firstFailure, mint_tx, saveCaller, scanOutcome, ranges,
                 initialBlock,
                 firstInitial, ghosts, killedRange, restarts>>

\* variant: the scan is made without the from_block > to_block test
CycleScanAlways ==
  /\ pc = "loop"
  /\ LET from == FromBlock(last_scanned_block)
         to == ToBlock(head, from)
     IN /\ latest_block' = head /\ from_block' = from /\ to_block' = to
        /\ \E outcome \in ScanOutcomes :
             /\ scanOutcome' = outcome
             /\ events' = scan_for_events(from, to, outcome)
        /\ ranges' = Append(ranges, <<from, to>>)
        /\ requested' = requested \cup (from..to)
  /\ idx' = 1 /\ attempts' = <<>> /\ firstFailure' = 0 /\ mint_tx' = NoCall
  /\ pc' = "process"
  /\ UNCHANGED <<file, chain, initial_scan_block, last_scanned_block,
                 saveCaller, initialBlock, firstInitial, handed, killedRange,
                 restarts>>

\* lines 325-341: a range is computed and scanned
CycleScan ==
  /\ pc = "loop"
  /\ LET from == FromBlock(last_scanned_block)
         to == ToBlock(head, from)
     IN /\ from <= to
        /\ latest_block' = head /\ from_block' = from /\ to_block' = to
        /\ \E outcome \in ScanOutcomes :
             /\ scanOutcome' = outcome
             /\ events' = scan_for_events(from, to, outcome)
        /\ ranges' = Append(ranges, <<from, to>>)
        /\ requested' = requested \cup (from..to)
  /\ idx' = 1 /\ attempts' = <<>> /\ firstFailure' = 0 /\ mint_tx' = NoCall
  /\ pc' = "process"
  /\ UNCHANGED <<file, chain, initial_scan_block, last_scanned_block,
                 saveCaller, initialBlock, firstInitial, handed, killedRange,
                 restarts>>

\* line 325 raises (node unreachable, reconnect fails): except Exception, line 356
CycleHeadFails ==
  /\ pc = "loop"
  /\ pc' = "exited"
  /\ UNCHANGED <<file, chain, initial_scan_block, last_scanned_block, locals,
                 saveCaller, scanOutcome, ranges, initialBlock, firstInitial,
                 ghosts, killedRange, restarts>>

\* lines 345-346: one process_event call, which returns True or False
ProcessEvent ==
  /\ pc = "process"
  /\ idx <= Len(events)
  /\ \E outcome \in ProcessOutcomes :
       LET ok == outcome = "sent"
       IN /\ attempts' = Append(attempts, EventAt(events, idx))
          /\ mint_tx' = IF outcome = "NodeError" THEN NoCall
                        ELSE MintTokens(event_data(EventAt(events, idx)))
          /\ firstFailure' = IF ~ok /\ firstFailure = 0 THEN Len(attempts) + 1
                             ELSE firstFailure
          /\ idx' = NextIdx(idx, ok, Len(events))
  /\ handed' = handed \cup {EventAt(events, idx)}
  /\ UNCHANGED <<file, chain, initial_scan_block, pc, last_scanned_block,
                 latest_block, from_block, to_block, events, saveCaller,
                 scanOutcome, ranges, initialBlock, firstInitial, requested,
                 killedRange, restarts>>

\* variant: the cursor is set while the for loop still has events to go
AdvanceCursorBeforeBatchEnd ==
  /\ pc = "process"
  /\ last_scanned_block' = CursorAfterBatch(last_scanned_block, to_block, firstFailure)
  /\ mint_tx' = NoCall
  /\ pc' = "save_open"
  /\ UNCHANGED <<file, chain, initial_scan_block, latest_block, from_block,
                 to_block, events, idx, attempts, firstFailure, saveCaller,
                 scanOutcome, ranges, initialBlock, firstInitial, ghosts,
                 killedRange, restarts>>

\* line 349; the call built inside process_event is gone with its frame
AdvanceCursor ==
  /\ pc = "process"
  /\ idx > Len(events)
  /\ last_scanned_block' = CursorAfterBatch(last_scanned_block, to_block, firstFailure)
  /\ mint_tx' = NoCall
  /\ pc' = "save_open"
  /\ UNCHANGED <<file, chain, initial_scan_block, latest_block, from_block,
                 to_block, events, idx, attempts, firstFailure, saveCaller,
                 scanOutcome, ranges, initialBlock, firstInitial, ghosts,
                 killedRange, restarts>>

\* ---- save_state ---------------------------------------------------------------
\* line 306: open(..., 'w') truncates the file
SaveOpen ==
  /\ pc = "save_open"
  /\ file' = Truncated
  /\ pc' = "save_dump"
  /\ UNCHANGED <<chain, initial_scan_block, last_scanned_block, locals,
                 saveCaller, scanOutcome, ranges, initialBlock, firstInitial,
                 ghosts, killedRange, restarts>>

\* variant: with a backlog left the loop goes straight to the next scan
SaveDumpCatchingUp ==
  /\ pc = "save_dump"
  /\ file' = Json(Val(last_scanned_block))
  /\ pc' = IF saveCaller # "cycle" THEN "exited"
           ELSE IF to_block < latest_block THEN "loop" ELSE "sleep"
  /\ UNCHANGED <<chain, initial_scan_block, last_scanned_block, locals,
                 saveCaller, scanOutcome, ranges, initialBlock, firstInitial,
                 ghosts, killedRange, restarts>>

\* lines 307-308: json.dump and the close of the with block
SaveDump ==
  /\ pc = "save_dump"
  /\ file' = Json(Val(last_scanned_block))
  /\ pc' = IF saveCaller = "cycle" THEN "sleep" ELSE "exited"
  /\ UNCHANGED <<chain, initial_scan_block, last_scanned_block, locals,
                 saveCaller, scanOutcome, ranges, initialBlock, firstInitial,
                 ghosts, killedRange, restarts>>

\* lines 333 and 351, back to line 323: the locals of the finished pass are
\* dead, every one is assigned again before it is read
Sleep ==
  /\ pc = "sleep"
  /\ pc' = "loop"
  /\ latest_block' = 0 /\ from_block' = 0 /\ to_block' = 0
  /\ events' = <<>> /\ idx' = 1 /\ attempts' = <<>> /\ firstFailure' = 0
  /\ mint_tx' = NoCall
  /\ scanOutcome' = "none"
  /\ UNCHANGED <<file, chain, initial_scan_block, last_scanned_block,
                 saveCaller, ranges, initialBlock, firstInitial, ghosts,
                 killedRange, restarts>>

\* ---- signals --------------------------------------------------------------------
InTry == {"loop", "process", "save_open", "save_dump", "sleep"}
Running == {"boot", "run"} \cup InTry
Stopped == {"down", "exited", "load_failed", "connect_failed"}

\* the batch of [from_block, to_block] is done and its cursor is not on disk yet
BeforePersist ==
  \/ pc = "process" /\ idx > Len(events)
  \/ pc \in {"save_open", "save_dump"} /\ saveCaller = "cycle"

\* variant: the handler exits without the final save_state
KeyboardInterruptNoSave ==
  /\ pc \in InTry
  /\ saveCaller = "cycle"
  /\ saveCaller' = "shutdown"
  /\ pc' = "exited"
  /\ UNCHANGED <<file, chain, initial_scan_block, last_scanned_block, locals,
                 scanOutcome, ranges, initialBlock, firstInitial, ghosts,
                 killedRange, restarts>>

\* lines 353-355: KeyboardInterrupt inside the try block
KeyboardInterrupt ==
  /\ pc \in InTry
  /\ saveCaller = "cycle"
  /\ saveCaller' = "shutdown"
  /\ pc' = "save_open"
  /\ UNCHANGED <<file, chain, initial_scan_block, last_scanned_block, locals,
                 scanOutcome, ranges, initialBlock, firstInitial, ghosts,
                 killedRange, restarts>>

\* SIGKILL, power loss, or an interrupt nothing catches: the memory of the
\* process is gone, the state file stays as it is
Kill ==
  /\ pc \in Running
  /\ killedRange' = IF BeforePersist THEN <<from_block, to_block>> ELSE <<>>
  /\ pc' = "down"
  /\ last_scanned_block' = None
  /\ latest_block' = 0 /\ from_block' = 0 /\ to_block' = 0
  /\ events' = <<>> /\ idx' = 1 /\ attempts' = <<>> /\ firstFailure' = 0
  /\ mint_tx' = NoCall
  /\ saveCaller' = "cycle"
  /\ scanOutcome' = "none"
  /\ ranges' = <<>>
  /\ initialBlock' = None
  /\ UNCHANGED <<file, chain, initial_scan_block, firstInitial, ghosts,
                 restarts>>

\* the operator starts the script again: a fresh process
Restart ==
  /\ pc \in Stopped
  /\ restarts < MaxRestarts
  /\ restarts' = restarts + 1
  /\ pc' = "boot"
  /\ last_scanned_block' = None
  /\ latest_block' = 0 /\ from_block' = 0 /\ to_block' = 0
  /\ events' = <<>> /\ idx' = 1 /\ attempts' = <<>> /\ firstFailure' = 0
  /\ mint_tx' = NoCall
  /\ saveCaller' = "cycle"
  /\ scanOutcome' = "none"
  /\ ranges' = <<>>
  /\ initialBlock' = None
  /\ killedRange' = IF pc = "down" THEN killedRange ELSE <<>>
  /\ UNCHANGED <<file, chain, initial_scan_block, firstInitial, ghosts>>

Next ==
  \/ NewBlock
  \/ ConstructOk \/ ConstructFails
  \/ ResolveInitial \/ ResolveInitialFails
  \/ CycleNoNewBlocks \/ CycleScan \/ CycleHeadFails
  \/ ProcessEvent \/ AdvanceCursor
  \/ SaveOpen \/ SaveDump \/ Sleep
  \/ KeyboardInterrupt \/ Kill \/ Restart

Spec == Init /\ [][Next]_vars

\* ---- properties --------------------------------------------------------------
AllHanded(b) == \A i \in 1..logs[b] : <<b, i>> \in handed

\* C1: every block above the initial block and <= the persisted
\* last_scanned_block has been in a scanned range and each of its events was
\* passed to process_event at least once.
C1_PersistedCursorCovered ==
  (file.kind = "json" /\ firstInitial # None) =>
    \A b \in (Val(firstInitial) + 1)..Min(file.val, head) :
      b \in requested /\ AllHanded(b)

\* C2: within one process the ranges passed to scan_for_events are contiguous
\* and disjoint: the first starts at initialBlock + 1, each next one at the
\* previous to_block + 1, none is empty, and between cycles they end exactly on
\* the cursor.
C2_RangesContiguous ==
  /\ \A i \in DOMAIN ranges :
       /\ ranges[i][1] <= ranges[i][2]
       /\ ranges[i][1] = IF i = 1 THEN Val(initialBlock) + 1
                         ELSE ranges[i - 1][2] + 1
  /\ pc \in {"loop", "sleep"} =>
       Val(last_scanned_block) =
         IF ranges = <<>> THEN Val(initialBlock) ELSE ranges[Len(ranges)][2]

C2_Witness ==
  /\ pc = "loop"
  /\ Len(ranges) >= 2
  /\ ranges[2][1] = ranges[1][2] + 1
  /\ Val(last_scanned_block) = ranges[2][2]

\* C3: after the node rejected the log query for [from_block, to_block]
\* (BlockNotFound) the result is empty and the cursor, in memory and in the
\* state file, stays at or below from_block - 1.
C3_RejectedRangeKeepsCursor ==
  (scanOutcome = "BlockNotFound" /\ pc \in InTry) =>
    /\ events = <<>>
    /\ Val(last_scanned_block) <= from_block - 1
    /\ file.kind = "json" => file.val <= from_block - 1

\* C4: a process restarted after a kill that came between the end of a batch
\* and the write of its cursor resumes from the persisted cursor and skips no
\* block: every block above the first initial block up to its cursor has been
\* in a range handed to scan_for_events.
C4_ResumeSkipsNothing ==
  (killedRange # <<>> /\ pc \in InTry) =>
    /\ (ranges = <<>> /\ pc = "loop" /\ file.kind = "json") =>
         Val(last_scanned_block) = file.val
    /\ \A b \in (Val(firstInitial) + 1)..Val(last_scanned_block) :
         b \in requested

\* C5: a process that died, at whatever point of save_state, leaves a state
\* file that holds the old or the new cursor, never a truncated record.
C5_SaveAtomic ==
  pc = "down" => file.kind # "truncated"

\* C6: load_state never raises: no startup ends in the exception of json.load.
C6_LoadNeverRaises ==
  pc # "load_failed"

\* C7: every range handed to scan_for_events has at most max_blocks_per_scan
\* blocks.
C7_ChunkBound ==
  /\ \A i \in DOMAIN ranges :
       ranges[i][2] - ranges[i][1] + 1 <= MaxBlocksPerScan
  /\ pc = "process" => to_block - from_block + 1 <= MaxBlocksPerScan

C7_Witness ==
  /\ pc = "process"
  /\ latest_block > to_block
  /\ to_block - from_block + 1 = MaxBlocksPerScan

\* C8: a node error during the log query does not come back to run() as an
\* empty result.
C8_NodeErrorEscalates ==
  ~(scanOutcome = "NodeError" /\ pc = "process" /\ events = <<>>)

\* C9: in a cycle the process_event calls made so far are exactly the first
\* events of the scan, one call each and in order, whatever the calls
\* returned; the cursor step is reached only with one call for every event.
C9_OneAttemptPerEvent ==
  /\ pc = "process" =>
       /\ Len(attempts) = idx - 1
       /\ idx <= Len(events) + 1
  /\ (pc \in {"save_open", "save_dump", "sleep"} /\ saveCaller = "cycle") =>
       attempts = events
  /\ pc \in InTry =>
       /\ Len(attempts) <= Len(events)
       /\ \A i \in DOMAIN attempts : attempts[i] = events[i]
       /\ \A i, j \in DOMAIN attempts : i # j => attempts[i] # attempts[j]

C9_Witness ==
  /\ pc = "process"
  /\ idx > Len(events)
  /\ Len(events) >= 2
  /\ attempts = events
  /\ firstFailure = 1

\* C10: a cycle that scanned ends with last_scanned_block = to_block, in memory
\* and in the state file, also when process_event returned False.
C10_CursorAdvancesDespiteFailure ==
  /\ (pc \in {"save_open", "save_dump"} /\ saveCaller = "cycle") =>
       last_scanned_block = Some(to_block)
  /\ (pc = "sleep" /\ from_block <= to_block) =>
       /\ last_scanned_block = Some(to_block)
       /\ file = Json(to_block)

C10_Witness ==
  /\ pc = "sleep"
  /\ from_block <= to_block
  /\ firstFailure > 0
  /\ last_scanned_block = Some(to_block)
  /\ file = Json(to_block)

\* C11: when a shutdown by KeyboardInterrupt has completed, the state file
\* holds the in-memory last_scanned_block; a cycle interrupted before every
\* event of its batch was attempted leaves the cursor at from_block - 1.
C11_ShutdownSavesCursor ==
  /\ (pc = "exited" /\ saveCaller = "shutdown") =>
       file = Json(Val(last_scanned_block))
  /\ (pc \in {"save_open", "save_dump", "exited"} /\ saveCaller = "shutdown"
        /\ attempts # events) =>
       Val(last_scanned_block) = from_block - 1

C11_Witness ==
  /\ pc = "exited"
  /\ saveCaller = "shutdown"
  /\ attempts # events
  /\ from_block >= 1
  /\ file = Json(from_block - 1)

\* C12: within one process last_scanned_block never decreases, and an event
\* passed to process_event lies above the cursor and in no range this process
\* scanned before.
C12_CursorMonotone ==
  [][/\ (last_scanned_block # None /\ last_scanned_block' # None) =>
          Val(last_scanned_block') >= Val(last_scanned_block)
     /\ (attempts' # attempts /\ attempts' # <<>>) =>
          LET e == attempts'[Len(attempts')]
          IN /\ e[1] > Val(last_scanned_block)
             /\ \A i \in 1..(Len(ranges) - 1) :
                  ~(ranges[i][1] <= e[1] /\ e[1] <= ranges[i][2])]_vars

C12_Witness ==
  /\ pc = "process"
  /\ Len(ranges) >= 2
  /\ attempts # <<>>
  /\ Val(last_scanned_block) = ranges[1][2]

\* C13: the events passed to process_event in one cycle are a prefix of the
\* scan result, strictly ascending in (blockNumber, logIndex), and all lie in
\* the range of this cycle.
Before(e, f) == e[1] < f[1] \/ (e[1] = f[1] /\ e[2] < f[2])

C13_AscendingDelivery ==
  pc \in InTry =>
    /\ attempts = SubSeq(events, 1, Len(attempts))
    /\ \A i \in 1..(Len(attempts) - 1) : Before(attempts[i], attempts[i + 1])
    /\ \A i \in DOMAIN attempts :
         from_block <= attempts[i][1] /\ attempts[i][1] <= to_block

C13_Witness ==
  /\ pc = "process"
  /\ Len(attempts) >= 3
  /\ attempts[1][1] = attempts[2][1]
  /\ attempts[1][2] < attempts[2][2]
  /\ attempts[2][1] < attempts[3][1]

\* C14: the call built for an event is one mintTokens call whose token,
\* recipient and amount are the event's and whose fourth argument is the
\* event's transaction hash.
C14_MintFromEvent ==
  (pc \in InTry /\ mint_tx # NoCall) =>
    /\ attempts # <<>>
    /\ LET data == event_data(attempts[Len(attempts)])
       IN /\ mint_tx.function = "mintTokens"
          /\ mint_tx.token = data.args.token
          /\ mint_tx.recipient = data.args.recipient
          /\ mint_tx.amount = data.args.amount
          /\ mint_tx.sourceTransactionHash = data.transactionHash

C14_Witness ==
  /\ pc = "process"
  /\ Len(attempts) >= 2
  /\ mint_tx # NoCall
  /\ mint_tx.sourceTransactionHash = <<"tx", attempts[2][1], attempts[2][2]>>
  /\ mint_tx.recipient = <<"recipient", attempts[2][1], attempts[2][2]>>

\* C15: in a cycle that scanned [from_block, to_block] the cursor is to_block,
\* in memory or in the state file, only when process_event has returned for
\* every event of the scan.
C15_AdvanceIsBarrier ==
  (pc \in InTry /\ 1 <= from_block /\ from_block <= to_block) =>
    /\ last_scanned_block = Some(to_block) => attempts = events
    /\ file = Json(to_block) => attempts = events

C15_Witness ==
  /\ pc = "sleep"
  /\ 1 <= from_block /\ from_block <= to_block
  /\ Len(events) >= 2
  /\ attempts = events
  /\ file = Json(to_block)

\* C16, as claimed: the loop sleeps only after a cycle that found no new
\* block or that scanned up to the head it had read.
C16_SleepsOnlyAtHead ==
  pc = "sleep" => (from_block > to_block \/ to_block = latest_block)

\* C16, amended: every cycle that completed its batch goes to the polling
\* sleep, backlog or not; the top of the loop is reached only from startup or
\* from the sleep, and the scan after the sleep starts at to_block + 1.
C16_SleepsAfterEveryCycle ==
  [][/\ (pc = "save_dump" /\ saveCaller = "cycle" /\ pc' \in InTry
           /\ pc' # pc /\ saveCaller' = "cycle") => pc' = "sleep"
     /\ (pc' = "loop" /\ pc # "loop") => pc \in {"run", "sleep"}
     /\ (pc = "sleep" /\ pc' = "loop" /\ from_block <= to_block) =>
          FromBlock(last_scanned_block') = to_block + 1]_vars

C16_Witness ==
  /\ pc = "sleep"
  /\ from_block <= to_block
  /\ to_block < latest_block
  /\ file = Json(to_block)

\* C17: a pass of the loop that finds from_block > to_block goes to the sleep
\* without a scan_for_events or process_event call and leaves the cursor and
\* the state file as they were.
C17_NoNewBlocksNoEffect ==
  [][(/\ pc = "loop"
      /\ pc' \in {"sleep", "process"}
      /\ FromBlock(last_scanned_block) >
           ToBlock(head, FromBlock(last_scanned_block))) =>
       /\ pc' = "sleep"
       /\ ranges' = ranges /\ requested' = requested
       /\ handed' = handed /\ attempts' = attempts
       /\ last_scanned_block' = last_scanned_block
       /\ file' = file]_vars

C17_Witness ==
  /\ pc = "sleep"
  /\ from_block > to_block
  /\ initial_scan_block.latest
  /\ file = Missing
  /\ ranges = <<>> /\ handed = {}
  /\ last_scanned_block = Some(latest_block)
  /\ from_block = latest_block + 1

\* C18: a failure of the source node in some cycle does not end the loop: the
\* process leaves run() only through the KeyboardInterrupt shutdown.
C18_LoopSurvivesNodeFailure ==
  pc = "exited" => saveCaller = "shutdown"

\* C19: a process that finds a cursor in the state file enters the loop with
\* exactly that value, 0 included, and its first scan starts one block above.
C19_StoredCursorIsUsed ==
  /\ (pc = "loop" /\ ranges = <<>> /\ file.kind = "json") =>
       last_scanned_block = Some(file.val)
  /\ (pc = "process" /\ Len(ranges) = 1 /\ file.kind = "json") =>
       ranges[1][1] = file.val + 1

\* C20: with initial_scan_block = 'latest' and nothing stored, a restarted
\* process starts no higher than the head resolved at the first startup, so
\* no block mined after that head is left out.
C20_InitialBlockSurvivesRestart ==
  (initial_scan_block.latest /\ file.kind = "missing" /\ initialBlock # None) =>
    Val(initialBlock) <= Val(firstInitial)
====
